---- MODULE Spec2Model ----
(***************************************************************************)
(* Recalculation engine of astroformulatron: Calculate, Reorder and        *)
(* ChangeUnit acting on one catalog formula (the z-factor formula of       *)
(* data.mjs), with the scientific-notation codec num_to_scientific and the *)
(* unit registry of units.mjs.                                             *)
(*                                                                         *)
(* Numbers.  A JavaScript value held in a variable's field is a record     *)
(*   [k, n, d, e, s]   with k one of                                       *)
(*     "fin"   the finite number n/d * 10^e in canonical form,             *)
(*     "inf"   +Infinity or -Infinity (the sign is not tracked: the        *)
(*             modelled formulas never add two infinities, so only         *)
(*             finiteness depends on it),                                  *)
(*     "nan"   NaN,                                                        *)
(*     "undef" undefined (the exponent num_to_scientific yields for a      *)
(*             non-finite argument),                                       *)
(*     "str"   the string s (the raw event.target.value of an input).      *)
(* Finite arithmetic is exact rational arithmetic; overflow to Infinity    *)
(* is modelled where the inputs reach it (Math.pow(10, e) with e > 308).   *)
(* Identifiers: lambda, lambda0 stand for the catalog's λ, λ0; the         *)
(* prefixes "arrow" and "star" stand for the two emoji markers.            *)
(***************************************************************************)
EXTENDS Integers, Sequences, FiniteSets, TLC

VARIABLES variables, order, steps, last

vars == <<variables, order, steps, last>>

(* --- bounds ------------------------------------------------------------ *)

\* number of Calculate / ChangeUnit calls explored in one behaviour
MaxSteps == 2

\* largest numerator and denominator of the finite numbers followed
MaxNum == 100000000

\* number of focus events followed in one behaviour of the focus history
MaxFocus == 3

(* --- JavaScript numbers ------------------------------------------------ *)

Abs(x) == IF x < 0 THEN -x ELSE x

RECURSIVE GCD(_, _)
GCD(a, b) == IF b = 0 THEN a ELSE GCD(b, a % b)

RECURSIVE IntPow10(_)
IntPow10(e) == IF e = 0 THEN 1 ELSE 10 * IntPow10(e - 1)

\* |a * b| <= MaxNum
Fits(a, b) == a = 0 \/ b = 0 \/ Abs(a) <= MaxNum \div Abs(b)

\* a finite number whose numerator or denominator exceeds MaxNum: the
\* model does not follow a call that produces one (see Representable)
Big == [k |-> "big", n |-> 0, d |-> 1, e |-> 0, s |-> ""]

\* canonical form of n/d * 10^e for coprime n # 0 and d > 0: n carries no
\* factor 10 and d no factor 2 or 5
RECURSIVE Canon(_, _, _)
Canon(n, d, e) ==
  IF n % 10 = 0 THEN Canon(n \div 10, d, e + 1)
  ELSE IF d % 10 = 0 THEN Canon(n, d \div 10, e - 1)
  ELSE IF d % 2 = 0
    THEN IF Fits(n, 5) THEN Canon(n * 5, d \div 2, e - 1) ELSE Big
  ELSE IF d % 5 = 0
    THEN IF Fits(n, 2) THEN Canon(n * 2, d \div 5, e - 1) ELSE Big
  ELSE [k |-> "fin", n |-> n, d |-> d, e |-> e, s |-> ""]

\* the finite number n/d * 10^e (d # 0)
Rat(n, d, e) ==
  IF n = 0 THEN [k |-> "fin", n |-> 0, d |-> 1, e |-> 0, s |-> ""]
  ELSE LET sg == IF d < 0 THEN -1 ELSE 1
           g  == GCD(Abs(n), Abs(d))
       IN  Canon((sg * n) \div g, (sg * d) \div g, e)

Int2Num(i) == Rat(i, 1, 0)
Infinity   == [k |-> "inf",   n |-> 0, d |-> 1, e |-> 0, s |-> ""]
NaN        == [k |-> "nan",   n |-> 0, d |-> 1, e |-> 0, s |-> ""]
undefined  == [k |-> "undef", n |-> 0, d |-> 1, e |-> 0, s |-> ""]
Str(s)     == [k |-> "str",   n |-> 0, d |-> 1, e |-> 0, s |-> s]

\* the numeric value of the strings an <input type="number"> can deliver
\* here ("" is what the browser reports for a partial entry such as "-")
StringToNumber(s) ==
  CASE s = ""    -> Int2Num(0)
    [] s = "1"   -> Int2Num(1)
    [] s = "3"   -> Int2Num(3)
    [] s = "5"   -> Int2Num(5)
    [] s = "400" -> Int2Num(400)
    [] OTHER     -> NaN

\* ToNumber, the coercion applied by *, / and Number()
ToNumber(x) ==
  CASE x.k = "str"   -> StringToNumber(x.s)
    [] x.k = "undef" -> NaN
    [] OTHER         -> x

isFinite(x) == ToNumber(x).k = "fin"

IsZero(x) == x.k = "fin" /\ x.n = 0

MulFin(a, b) ==
  LET g1 == GCD(Abs(a.n), b.d)
      g2 == GCD(Abs(b.n), a.d)
  IN  IF Fits(a.n \div g1, b.n \div g2) /\ Fits(a.d \div g2, b.d \div g1)
      THEN Rat((a.n \div g1) * (b.n \div g2), (a.d \div g2) * (b.d \div g1),
               a.e + b.e)
      ELSE Big

\* x * y
Mul(x, y) ==
  LET a == ToNumber(x)
      b == ToNumber(y)
  IN  CASE a.k = "big" \/ b.k = "big"             -> Big
        [] a.k = "nan" \/ b.k = "nan"             -> NaN
        [] a.k = "inf" /\ IsZero(b)                -> NaN
        [] IsZero(a) /\ b.k = "inf"                -> NaN
        [] a.k = "inf" \/ b.k = "inf"             -> Infinity
        [] OTHER                                   -> MulFin(a, b)

\* x / y
Div(x, y) ==
  LET a == ToNumber(x)
      b == ToNumber(y)
  IN  CASE a.k = "big" \/ b.k = "big"             -> Big
        [] a.k = "nan" \/ b.k = "nan"             -> NaN
        [] a.k = "inf" /\ b.k = "inf"             -> NaN
        [] a.k = "inf"                             -> Infinity
        [] b.k = "inf"                             -> Int2Num(0)
        [] IsZero(a) /\ IsZero(b)                  -> NaN
        [] IsZero(b)                               -> Infinity
        [] OTHER                                   -> MulFin(a, Rat(b.d, b.n, -b.e))

\* a/b + c/d scaled to a common decimal exponent lo
AddScaled(a, c, lo) ==
  LET sa == a.e - lo
      sc == c.e - lo
  IN  IF sa > 8 \/ sc > 8 THEN Big
      ELSE IF ~Fits(a.n, IntPow10(sa)) \/ ~Fits(c.n, IntPow10(sc)) THEN Big
      ELSE IF ~Fits(a.n * IntPow10(sa), c.d) \/ ~Fits(c.n * IntPow10(sc), a.d)
              \/ ~Fits(a.d, c.d) THEN Big
      ELSE IF Abs(a.n * IntPow10(sa) * c.d + c.n * IntPow10(sc) * a.d) > MaxNum
        THEN Big
      ELSE Rat(a.n * IntPow10(sa) * c.d + c.n * IntPow10(sc) * a.d,
               a.d * c.d, lo)

\* x + c and x - c for a finite constant c
AddFin(x, c) ==
  LET a  == ToNumber(x)
  IN  CASE a.k = "big" -> Big
        [] a.k = "nan" -> NaN
        [] a.k = "inf" -> Infinity
        [] OTHER       -> AddScaled(a, c, IF a.e < c.e THEN a.e ELSE c.e)

\* x + y; the sign of an infinity is not tracked, so a sum of two
\* infinities (Infinity or NaN) is not followed
Add(x, y) ==
  LET a == ToNumber(x)
      b == ToNumber(y)
  IN  CASE a.k = "big" \/ b.k = "big" -> Big
        [] a.k = "nan" \/ b.k = "nan" -> NaN
        [] a.k = "inf" /\ b.k = "inf" -> Big
        [] a.k = "inf" \/ b.k = "inf" -> Infinity
        [] OTHER -> AddScaled(a, b, IF a.e < b.e THEN a.e ELSE b.e)

\* x - y
Sub(x, y) ==
  LET b == ToNumber(y)
  IN  Add(x, IF b.k = "fin" THEN [b EXCEPT !.n = -b.n] ELSE b)

\* largest and smallest decimal exponents of a double
MaxDoubleExp == 308
MinDoubleExp == -324

\* the value of a number that is a non-negative or negative integer
IntOf(a) == a.n * IntPow10(a.e)

\* Math.pow(10, e), e an integer
Pow10(e) ==
  LET a == ToNumber(e)
  IN  CASE a.k = "big"               -> Big
        [] a.k # "fin"               -> NaN
        [] IntOf(a) > MaxDoubleExp   -> Infinity
        [] IntOf(a) < MinDoubleExp   -> Int2Num(0)
        [] OTHER                     -> Rat(1, 1, IntOf(a))

\* 10 ** y: followed for integer y (for an infinite y the result depends
\* on the sign, for a fractional y it is irrational)
TenPow(y) ==
  LET a == ToNumber(y)
  IN  CASE a.k = "nan" -> NaN
        [] a.k # "fin" -> Big
        [] a.d # 1 \/ a.e < 0 -> Big
        [] a.e > 3 \/ Abs(a.n) > 1000 ->
             IF a.n > 0 THEN Infinity ELSE Int2Num(0)
        [] OTHER -> Pow10(a)

\* log10(x) = Math.log(x) / Math.log(10): followed for 0, for negative x
\* and for the powers of ten, where it is taken as the exact exponent
log10(x) ==
  LET a == ToNumber(x)
  IN  CASE a.k = "nan" -> NaN
        [] a.k # "fin" -> Big
        [] a.n = 0 -> Infinity
        [] a.n < 0 -> NaN
        [] a.n = 1 /\ a.d = 1 -> Int2Num(a.e)
        [] OTHER -> Big

(* --- num_to_scientific ------------------------------------------------- *)

\* significant digits kept by toPrecision
Precision == 5

\* floor(log10(a/d)) for a, d > 0
RECURSIVE Log10Floor(_, _)
Log10Floor(a, d) ==
  IF a < d THEN Log10Floor(a * 10, d) - 1
  ELSE IF a \div 10 >= d THEN Log10Floor(a, d * 10) + 1
  ELSE 0

\* the first p digits of a/d in [1, 10), as an integer, with the remainder
RECURSIVE Digits(_, _, _)
Digits(a, d, p) ==
  IF p = 1 THEN [q |-> a \div d, r |-> a % d]
  ELSE LET h == Digits(a, d, p - 1)
       IN  [q |-> h.q * 10 + (h.r * 10) \div d, r |-> (h.r * 10) % d]

\* the largest 5-digit mantissa, scaled by 10^4, that parseFloat still
\* reads as a finite number at exponent 308 (1.7976e+308; "1.7977e+308"
\* exceeds Number.MAX_VALUE and is read as Infinity)
MaxDoubleMantissa == 17976

\* x.toPrecision(5) read back by parseFloat, then split by toExponential()
num_to_scientific_fin(x) ==
  IF x.n = 0 THEN [mantissa |-> Int2Num(0), exponent |-> Int2Num(0)]
  ELSE
    LET a   == Abs(x.n)
        sg  == IF x.n < 0 THEN -1 ELSE 1
        e0  == Log10Floor(a, x.d)
        a1  == IF e0 < 0 THEN a * IntPow10(-e0) ELSE a
        d1  == IF e0 > 0 THEN x.d * IntPow10(e0) ELSE x.d
        dg  == Digits(a1, d1, Precision)
        up  == IF 2 * dg.r >= d1 THEN dg.q + 1 ELSE dg.q
        top == IntPow10(Precision)
        q   == IF up = top THEN top \div 10 ELSE up
        e2  == IF up = top THEN e0 + x.e + 1 ELSE e0 + x.e
    IN  IF e2 > MaxDoubleExp \/ (e2 = MaxDoubleExp /\ q > MaxDoubleMantissa)
        THEN [mantissa |-> Infinity, exponent |-> undefined]
        ELSE [mantissa |-> Rat(sg * q, 1, 1 - Precision),
              exponent |-> Int2Num(e2)]

num_to_scientific(x) ==
  IF x.k = "fin" THEN num_to_scientific_fin(x)
  ELSE [mantissa |-> x, exponent |-> undefined]

(* --- unit registry (units.mjs) ----------------------------------------- *)

Kinds == {"length", "speed"}

units ==
  [kind \in Kinds |->
     IF kind = "length"
     THEN [u \in {"centimeters", "meters"} |->
             IF u = "centimeters" THEN Rat(1, 100, 0) ELSE Rat(1, 1, 0)]
     ELSE [u \in {"meters/second", "kilometers/second"} |->
             IF u = "meters/second" THEN Rat(1, 1, 0) ELSE Rat(1000, 1, 0)]]

kindOfUnit(unit) ==
  IF \E kind \in Kinds : unit \in DOMAIN units[kind]
  THEN CHOOSE kind \in Kinds : unit \in DOMAIN units[kind]
  ELSE "undefined"

\* the TypeError a property access on undefined throws
TypeError == [k |-> "throw", n |-> 0, d |-> 1, e |-> 0, s |-> "TypeError"]

\* units[kindOfUnit(unit)][unit]: for a unit of no kind, units[undefined] is
\* undefined and reading [unit] of it throws
factorOfUnit(unit) ==
  IF kindOfUnit(unit) = "undefined" THEN TypeError
  ELSE units[kindOfUnit(unit)][unit]

\* mutant: the dropdown offers the units of every kind
unitDropdown_all(unit) ==
  [threw |-> FALSE, options |-> UNION {DOMAIN units[kind] : kind \in Kinds}]

\* the options the unit dropdown of a variable offers; for a unit of no
\* kind Object.keys(undefined) throws
unitDropdown(unit) ==
  IF kindOfUnit(unit) = "undefined" THEN [threw |-> TRUE, options |-> {}]
  ELSE [threw |-> FALSE, options |-> DOMAIN units[kindOfUnit(unit)]]

(* --- catalog (data.mjs, z-factor) -------------------------------------- *)

VarIds == {"lambda", "lambda0", "z"}

data ==
  [order |-> <<"z", "lambda", "lambda0">>,
   variables |->
     [v \in VarIds |->
        CASE v = "lambda"  -> [value |-> Int2Num(2), unit |-> "meters"]
          [] v = "lambda0" -> [value |-> Int2Num(1), unit |-> "meters"]
          [] v = "z"       -> [value |-> Int2Num(1), unit |-> ""]]]

\* the distance-modulus form; m and M declare no unit
distance_modulus ==
  [order |-> <<"d", "M", "m">>,
   variables |->
     [v \in {"m", "M", "d"} |->
        CASE v = "m" -> [value |-> Int2Num(5), unit |-> ""]
          [] v = "M" -> [value |-> Int2Num(-5), unit |-> ""]
          [] v = "d" -> [value |-> Int2Num(1000), unit |-> "parsecs"]]]

One == Int2Num(1)
Five == Int2Num(5)

\* variable.formula(values)
formula(v_id, values) ==
  CASE v_id = "lambda"  -> Mul(values["lambda0"], AddFin(values["z"], One))
    [] v_id = "lambda0" -> Div(values["lambda"], AddFin(values["z"], One))
    [] v_id = "z"       -> AddFin(Div(values["lambda"], values["lambda0"]),
                                  Int2Num(-1))
    [] v_id = "m" -> Add(Sub(Mul(Five, log10(values["d"])), Five), values["M"])
    [] v_id = "M" -> Sub(values["m"], Sub(Mul(Five, log10(values["d"])), Five))
    [] v_id = "d" -> TenPow(Div(Add(Sub(values["m"], values["M"]), Five), Five))

(* --- order helpers ----------------------------------------------------- *)

\* Array.prototype.indexOf, 1-based; 0 when absent
indexOf(seq, x) ==
  IF \E i \in 1..Len(seq) : seq[i] = x
  THEN CHOOSE i \in 1..Len(seq) : seq[i] = x /\ \A j \in 1..(i - 1) : seq[j] # x
  ELSE 0

\* the marker of the variable at 1-based index i of an order of length n:
\* i0 / (n - 1) == 1 is tested before == 0
prefixOf(i, n) ==
  IF n > 1 /\ i - 1 = n - 1 THEN "arrow"
  ELSE IF n > 1 /\ i - 1 = 0 THEN "star"
  ELSE ""

(* --- raw inputs of the events ------------------------------------------ *)

\* event.target.value of the mantissa field: a partial entry, a number
MantissaInputs == {"", "3"}
\* event.target.value of the exponent field: a number, one beyond the
\* range of a double
ExponentInputs == {"1", "400"}

Fields == {"mantissa", "exponent"}

InputsOf(name) == IF name = "mantissa" THEN MantissaInputs ELSE ExponentInputs

\* every number of the variables fits the model's integers
Representable(vs) ==
  \A v_id \in DOMAIN vs :
     /\ vs[v_id].value.k # "big"
     /\ vs[v_id].mantissa.k # "big"
     /\ vs[v_id].exponent.k # "big"

(* --- preprocess loop --------------------------------------------------- *)

\* the loop body, for a variable of the given form
preprocessIn(form, variable_id) ==
  LET variable   == form.variables[variable_id]
      scientific == num_to_scientific(variable.value)
  IN  [value        |-> variable.value,
       mantissa     |-> scientific.mantissa,
       exponent     |-> scientific.exponent,
       unit         |-> variable.unit,
       default_unit |-> variable.unit,
       unit_ratio   |-> Int2Num(1),
       prefix       |-> prefixOf(indexOf(form.order, variable_id),
                                 Len(form.order))]

preprocess(variable_id) == preprocessIn(data, variable_id)

(* --- Calculate --------------------------------------------------------- *)

\* mutant: the raw input is always assigned to the mantissa
UpdateInputted_mantissa(v, name, value) ==
  LET v1 == IF name \in {"mantissa", "exponent"}
            THEN [v EXCEPT !.mantissa = value]
            ELSE v
  IN  [v1 EXCEPT !.value =
         Mul(Mul(v1.mantissa, Pow10(v1.exponent)), v1.unit_ratio)]

\* v[event.target.name] = event.target.value
\* v.value = v.mantissa * Math.pow(10, v.exponent) * v.unit_ratio
UpdateInputted(v, name, value) ==
  LET v1 == IF name = "mantissa" THEN [v EXCEPT !.mantissa = value]
            ELSE IF name = "exponent" THEN [v EXCEPT !.exponent = value]
            ELSE v
  IN  [v1 EXCEPT !.value =
         Mul(Mul(v1.mantissa, Pow10(v1.exponent)), v1.unit_ratio)]

\* Flatten values of variables
Flatten(vs) == [v_id \in DOMAIN vs |-> ToNumber(vs[v_id].value)]

\* mutant: the guard never stops the walk
GuardPasses_always(values, ord) == TRUE

\* mutant: the guard exempts the last variable of the order, not the first
GuardPasses_last(values, ord) ==
  \A v_id \in DOMAIN values : v_id = ord[Len(ord)] \/ isFinite(values[v_id])

\* Don't run if any variable besides the first-to-be-calculated is invalid
GuardPasses(values, ord) ==
  \A v_id \in DOMAIN values : v_id = ord[1] \/ isFinite(values[v_id])

\* mutant: the inputted variable is never skipped
Skip_never(v_id, variable_id, self) == FALSE

\* mutant: the inputted variable is skipped whatever self is
Skip_always(v_id, variable_id, self) == v_id = variable_id

\* if(v_id == variable_id && !self) continue
Skip(v_id, variable_id, self) == v_id = variable_id /\ ~self

\* the assignments of the loop body for the result val of the formula
WalkAssign(st, v_id, val) ==
  LET v          == st.variables[v_id]
      scientific == num_to_scientific(Div(val, v.unit_ratio))
  IN  [variables |-> [st.variables EXCEPT ![v_id] =
                        [v EXCEPT !.value    = val,
                                  !.mantissa = scientific.mantissa,
                                  !.exponent = scientific.exponent]],
       values    |-> [st.values EXCEPT ![v_id] = val]]

\* mutant: the scientific notation is taken of val * unit_ratio
WalkStep_times(st, v_id) ==
  LET v          == st.variables[v_id]
      val        == ToNumber(formula(v_id, st.values))
      scientific == num_to_scientific(Mul(val, v.unit_ratio))
  IN  [variables |-> [st.variables EXCEPT ![v_id] =
                        [v EXCEPT !.value    = val,
                                  !.mantissa = scientific.mantissa,
                                  !.exponent = scientific.exponent]],
       values    |-> [st.values EXCEPT ![v_id] = val]]

\* mutant: the result is not written back to the snapshot
WalkStep_stale(st, v_id) ==
  LET v          == st.variables[v_id]
      val        == ToNumber(formula(v_id, st.values))
      scientific == num_to_scientific(Div(val, v.unit_ratio))
  IN  [variables |-> [st.variables EXCEPT ![v_id] =
                        [v EXCEPT !.value    = val,
                                  !.mantissa = scientific.mantissa,
                                  !.exponent = scientific.exponent]],
       values    |-> st.values]

\* one iteration of the loop body, on st = [variables, values]; the formula
\* is evaluated once and its result val is used by the assignments
WalkStep(st, v_id) ==
  CHOOSE after \in {WalkAssign(st, v_id, val) :
                      val \in {ToNumber(formula(v_id, st.values))}} : TRUE

\* mutant: the loop runs only for an inputted variable that is first in
\* the order
RECURSIVE Walk_first(_, _, _, _, _)
Walk_first(st, ord, i, variable_id, self) ==
  IF i = 0 \/ variable_id # ord[1] THEN st
  ELSE LET before == Walk_first(st, ord, i - 1, variable_id, self)
       IN  IF Skip(ord[i], variable_id, self) THEN before
           ELSE WalkStep(before, ord[i])

\* mutant: the loop breaks after the first non-finite result
RECURSIVE Walk_halting(_, _, _, _, _)
Walk_halting(st, ord, i, variable_id, self) ==
  IF i = 0 THEN st
  ELSE LET before == Walk_halting(st, ord, i - 1, variable_id, self)
       IN  IF Skip(ord[i], variable_id, self) THEN before
           ELSE IF \E v_id \in DOMAIN st.values : ~isFinite(before.values[v_id])
                      /\ before.values[v_id] # st.values[v_id]
                THEN before
                ELSE WalkStep(before, ord[i])

\* for(const v_id of form.order), positions 1..i
RECURSIVE Walk(_, _, _, _, _)
Walk(st, ord, i, variable_id, self) ==
  IF i = 0 THEN st
  ELSE LET before == Walk(st, ord, i - 1, variable_id, self)
       IN  IF Skip(ord[i], variable_id, self) THEN before
           ELSE WalkStep(before, ord[i])

\* the variables after Calculate(group_id, form_id, variable_id, self)
\* handled an event whose target has the given name and value
CalculateVars(vs, ord, variable_id, self, name, value) ==
  LET vs1    == [vs EXCEPT ![variable_id] =
                   UpdateInputted(vs[variable_id], name, value)]
      values == Flatten(vs1)
  IN  IF GuardPasses(values, ord)
      THEN Walk([variables |-> vs1, values |-> values],
                ord, Len(ord), variable_id, self).variables
      ELSE vs1

\* the snapshot `values` built by that call before the walk
SnapshotOf(vs, variable_id, name, value) ==
  Flatten([vs EXCEPT ![variable_id] =
             UpdateInputted(vs[variable_id], name, value)])

(* --- Reorder ----------------------------------------------------------- *)

\* mutant: the variable is exchanged with the last one
MoveToLast_swap(ord, variable_id) ==
  LET i == indexOf(ord, variable_id)
  IN  [ord EXCEPT ![i] = ord[Len(ord)], ![Len(ord)] = ord[i]]

\* mutant: unshift instead of push
MoveToLast_front(ord, variable_id) ==
  LET i == indexOf(ord, variable_id)
  IN  <<ord[i]>> \o SubSeq(ord, 1, i - 1) \o SubSeq(ord, i + 1, Len(ord))

\* mutant: push without splice
MoveToLast_push(ord, variable_id) == Append(ord, variable_id)

\* mutant: the order is rotated until the variable is last
MoveToLast_rotate(ord, variable_id) ==
  LET i == indexOf(ord, variable_id)
  IN  SubSeq(ord, i + 1, Len(ord)) \o SubSeq(ord, 1, i)

\* form.order.push(form.order.splice(form.order.indexOf(variable_id), 1)[0])
MoveToLast(ord, variable_id) ==
  LET i == indexOf(ord, variable_id)
  IN  Append(SubSeq(ord, 1, i - 1) \o SubSeq(ord, i + 1, Len(ord)), ord[i])

\* mutant: only the variable moved to the end gets its marker refreshed
RefreshPrefix_last(vs, ord) ==
  [v_id \in DOMAIN vs |->
     IF v_id = ord[Len(ord)]
     THEN [vs[v_id] EXCEPT !.prefix = prefixOf(Len(ord), Len(ord))]
     ELSE vs[v_id]]

\* mutant: the loop also resets unit_ratio, as the preprocess loop does
RefreshPrefix_reset(vs, ord) ==
  [v_id \in DOMAIN vs |->
     IF indexOf(ord, v_id) = 0 THEN vs[v_id]
     ELSE [vs[v_id] EXCEPT !.prefix = prefixOf(indexOf(ord, v_id), Len(ord)),
                           !.unit_ratio = Int2Num(1)]]

\* the prefix refresh loop
RefreshPrefix(vs, ord) ==
  [v_id \in DOMAIN vs |->
     IF indexOf(ord, v_id) = 0 THEN vs[v_id]
     ELSE [vs[v_id] EXCEPT !.prefix = prefixOf(indexOf(ord, v_id), Len(ord))]]

(* --- ChangeUnit -------------------------------------------------------- *)

\* mutant: the ratio is taken the other way round
SetUnit_inverse(v, unit) ==
  [v EXCEPT !.unit = unit,
            !.unit_ratio = Div(factorOfUnit(v.default_unit), factorOfUnit(unit))]

\* mutant: the unit is assigned but unit_ratio is left as it was
SetUnit_keepratio(v, unit) == [v EXCEPT !.unit = unit]

\* v.unit = event.target.value; v.unit_ratio = factorOfUnit(v.unit) /
\* factorOfUnit(v.default_unit)
SetUnit(v, unit) ==
  [v EXCEPT !.unit = unit,
            !.unit_ratio = Div(factorOfUnit(unit), factorOfUnit(v.default_unit))]

(* --- state machine ----------------------------------------------------- *)

\* the record of the last call: its arguments, the state it started from
\* and the snapshot it built
Call(op, variable_id, self, name, value, snapshot) ==
  [op |-> op, variable_id |-> variable_id, self |-> self, name |-> name,
   value |-> value, variables |-> variables, order |-> order,
   values |-> snapshot]

Init ==
  /\ variables = [variable_id \in VarIds |-> preprocess(variable_id)]
  /\ order = data.order
  /\ steps = 0
  /\ last = [op |-> "preprocess", variable_id |-> "", self |-> FALSE,
             name |-> "", value |-> "",
             variables |-> [variable_id \in VarIds |-> preprocess(variable_id)],
             order |-> data.order,
             values |-> [v_id \in VarIds |-> data.variables[v_id].value]]

\* mutant: the call also moves the inputted variable to the end of the order
Calculate_reorder(variable_id, self, name, value) ==
  /\ steps < MaxSteps
  /\ variables' = CalculateVars(variables, order, variable_id, self,
                                name, Str(value))
  /\ Representable(variables')
  /\ order' = MoveToLast(order, variable_id)
  /\ steps' = steps + 1
  /\ last' = Call("Calculate", variable_id, self, name, value,
                  SnapshotOf(variables, variable_id, name, Str(value)))

\* oninput of the mantissa and exponent inputs (self = false) and onchange
\* of the mantissa input (self = true)
Calculate(variable_id, self, name, value) ==
  /\ steps < MaxSteps
  /\ variables' = CalculateVars(variables, order, variable_id, self,
                                name, Str(value))
  /\ Representable(variables')
  /\ order' = order
  /\ steps' = steps + 1
  /\ last' = Call("Calculate", variable_id, self, name, value,
                  SnapshotOf(variables, variable_id, name, Str(value)))

\* onfocus of the mantissa and exponent inputs; of this call the record
\* keeps the name and the variable only
Reorder(variable_id) ==
  /\ order' = MoveToLast(order, variable_id)
  /\ variables' = RefreshPrefix(variables, MoveToLast(order, variable_id))
  /\ steps' = steps
  /\ last' = [op |-> "Reorder", variable_id |-> variable_id, self |-> FALSE,
              name |-> "", value |-> "", variables |-> variables',
              order |-> order', values |-> Flatten(variables')]

\* mutant: the final Calculate is called without self
ChangeUnit_input(variable_id, unit) ==
  /\ steps < MaxSteps
  /\ variables[variable_id].unit # ""
  /\ unit \in unitDropdown(variables[variable_id].unit).options
  /\ unit # variables[variable_id].unit
  /\ LET vs1 == [variables EXCEPT ![variable_id] =
                   SetUnit(variables[variable_id], unit)]
     IN  /\ variables' = CalculateVars(vs1, order, variable_id, FALSE,
                                       "", Str(unit))
         /\ last' = Call("ChangeUnit", variable_id, TRUE, "", unit,
                         SnapshotOf(vs1, variable_id, "", Str(unit)))
  /\ Representable(variables')
  /\ order' = order
  /\ steps' = steps + 1

\* oninput of the unit dropdown, fired when another option is selected; the
\* select element carries no name
ChangeUnit(variable_id, unit) ==
  /\ steps < MaxSteps
  /\ variables[variable_id].unit # ""
  /\ unit \in unitDropdown(variables[variable_id].unit).options
  /\ unit # variables[variable_id].unit
  /\ LET vs1 == [variables EXCEPT ![variable_id] =
                   SetUnit(variables[variable_id], unit)]
     IN  /\ variables' = CalculateVars(vs1, order, variable_id, TRUE,
                                       "", Str(unit))
         /\ last' = Call("ChangeUnit", variable_id, TRUE, "", unit,
                         SnapshotOf(vs1, variable_id, "", Str(unit)))
  /\ Representable(variables')
  /\ order' = order
  /\ steps' = steps + 1

AllUnits == UNION {DOMAIN units[kind] : kind \in Kinds}

Next ==
  \/ \E variable_id \in VarIds, name \in Fields :
       \E value \in InputsOf(name) : Calculate(variable_id, FALSE, name, value)
  \/ \E variable_id \in VarIds :
       \E value \in MantissaInputs : Calculate(variable_id, TRUE, "mantissa", value)
  \/ \E variable_id \in VarIds : Reorder(variable_id)
  \/ \E variable_id \in VarIds, unit \in AllUnits : ChangeUnit(variable_id, unit)

Spec == Init /\ [][Next]_vars

TypeOK ==
  /\ order \in Seq(VarIds)
  /\ steps \in 0..MaxSteps

(* --- num_to_scientific on its own --------------------------------------- *)

\* numerators, denominators and decimal exponents of the arguments
CodecNumerators == {1, 5, 12345, 99999, 123456, 179769, 999994, 999995, 999999}
CodecDenominators == {1, 3, 7}
CodecExponents == {-9, 0, 2, 303}

\* the finite number is within the range of a double
InDoubleRange(x) ==
  \/ x.n = 0
  \/ LET a  == Abs(x.n)
         e0 == Log10Floor(a, x.d)
         a1 == IF e0 < 0 THEN a * IntPow10(-e0) ELSE a
         d1 == IF e0 > 0 THEN x.d * IntPow10(e0) ELSE x.d
         dg == Digits(a1, d1, Precision + 1)
     IN  \/ e0 + x.e < MaxDoubleExp
         \/ /\ e0 + x.e = MaxDoubleExp
            /\ dg.q <= MaxDoubleMantissa * 10 + 9
            /\ dg.q = MaxDoubleMantissa * 10 + 9 => dg.r = 0

\* the arguments num_to_scientific is applied to
CodecInputs ==
  {x \in {Rat(sg * n, d, e) : sg \in {-1, 1}, n \in CodecNumerators \cup {0},
                              d \in CodecDenominators, e \in CodecExponents} :
     InDoubleRange(x)}

\* the argument is held in variables, the call and its result in last
CodecInit ==
  /\ variables \in {[x |-> x] : x \in CodecInputs}
  /\ order = <<>>
  /\ steps = 0
  /\ last = [op |-> "none"]

CodecCall ==
  /\ steps = 0
  /\ steps' = 1
  /\ last' = [op |-> "num_to_scientific", x |-> variables.x,
              result |-> num_to_scientific(variables.x)]
  /\ UNCHANGED <<variables, order>>

SpecCodec == CodecInit /\ [][CodecCall]_vars

(* --- unit changes outside the dropdown's options ------------------------ *)

\* a unit identifier the registry does not hold
UnknownUnits == {"furlongs"}

\* ChangeUnit called with a unit of no kind: v.unit is assigned, then
\* factorOfUnit(v.unit) throws before unit_ratio is assigned and before
\* Calculate is called
ChangeUnitThrows(variable_id, unit) ==
  /\ steps < MaxSteps
  /\ variables[variable_id].unit # ""
  /\ factorOfUnit(unit) = TypeError
  /\ variables' = [variables EXCEPT ![variable_id].unit = unit]
  /\ order' = order
  /\ steps' = steps + 1
  /\ last' = [op |-> "TypeError", variable_id |-> variable_id, self |-> TRUE,
              name |-> "", value |-> unit, variables |-> variables,
              order |-> order, values |-> Flatten(variables)]

UnitsNext ==
  \/ Next
  \/ \E variable_id \in VarIds, unit \in UnknownUnits :
       ChangeUnitThrows(variable_id, unit)

SpecUnits == Init /\ [][UnitsNext]_vars

(* --- the events of the view -------------------------------------------- *)

EventTypes == {"oninput", "onchange", "onfocus"}

\* the handlers the view binds to the mantissa and the exponent input: the
\* action each event type dispatches and the self argument it passes
view ==
  [name \in Fields |->
     IF name = "mantissa"
     THEN [oninput  |-> [op |-> "Calculate", self |-> FALSE],
           onchange |-> [op |-> "Calculate", self |-> TRUE],
           onfocus  |-> [op |-> "Reorder",   self |-> FALSE]]
     ELSE [oninput  |-> [op |-> "Calculate", self |-> FALSE],
           onfocus  |-> [op |-> "Reorder",   self |-> FALSE]]]

\* an event of a type the input binds no handler to: no action is
\* dispatched and the state stays as it is
Unhandled(variable_id, name, type) ==
  /\ type \notin DOMAIN view[name]
  /\ UNCHANGED <<variables, order, steps>>
  /\ last' = [op |-> "none", variable_id |-> variable_id, self |-> FALSE,
              name |-> name, value |-> type, variables |-> variables,
              order |-> order, values |-> Flatten(variables)]

\* an event of the given type on the input `name` of a variable
Fire(variable_id, name, type, value) ==
  \/ /\ type \in DOMAIN view[name]
     /\ view[name][type].op = "Calculate"
     /\ Calculate(variable_id, view[name][type].self, name, value)
  \/ /\ type \in DOMAIN view[name]
     /\ view[name][type].op = "Reorder"
     /\ Reorder(variable_id)
  \/ Unhandled(variable_id, name, type)

ViewNext ==
  \/ \E variable_id \in VarIds, name \in Fields, type \in EventTypes :
       \E value \in InputsOf(name) : Fire(variable_id, name, type, value)
  \/ \E variable_id \in VarIds, unit \in AllUnits : ChangeUnit(variable_id, unit)

SpecView == Init /\ [][ViewNext]_vars

(* --- the distance-modulus form ------------------------------------------ *)

DMVarIds == DOMAIN distance_modulus.variables

\* event.target.value of the mantissa and exponent fields edited here
DMMantissaInputs == {"", "5"}
DMExponentInputs == {"1", "400"}

DMInit ==
  /\ variables = [variable_id \in DMVarIds |->
                    preprocessIn(distance_modulus, variable_id)]
  /\ order = distance_modulus.order
  /\ steps = 0
  /\ last = [op |-> "preprocess", variable_id |-> "", self |-> FALSE,
             name |-> "", value |-> "",
             variables |-> [variable_id \in DMVarIds |->
                              preprocessIn(distance_modulus, variable_id)],
             order |-> distance_modulus.order,
             values |-> [v_id \in DMVarIds |->
                           distance_modulus.variables[v_id].value]]

\* the input, change and focus events of the fields of d, M and m
DMNext ==
  \/ \E variable_id \in DMVarIds :
       \/ \E value \in DMMantissaInputs :
            Calculate(variable_id, FALSE, "mantissa", value)
       \/ \E value \in DMExponentInputs :
            Calculate(variable_id, FALSE, "exponent", value)
  \/ \E variable_id \in DMVarIds :
       \E value \in DMMantissaInputs : Calculate(variable_id, TRUE, "mantissa", value)
  \/ \E variable_id \in DMVarIds : Reorder(variable_id)

SpecDM == DMInit /\ [][DMNext]_vars

(* --- the focus history of the fields ------------------------------------ *)

\* Here the record of the last event keeps, besides the call and the order
\* it started from: focus, the variable whose field received the most
\* recent focus event ("" before the first); disciplined, whether every
\* input and change event so far went to a field of that variable; stamp,
\* for every variable the number of the most recent focus event on one of
\* its fields (0 for none); clock, the number of focus events so far.

\* event.target.value of the mantissa and exponent fields edited here
FocusMantissaInputs == {"3"}
FocusExponentInputs == {"400"}

FocusInit ==
  /\ variables = [variable_id \in VarIds |-> preprocess(variable_id)]
  /\ order = data.order
  /\ steps = 0
  /\ last = [op |-> "preprocess", variable_id |-> "", self |-> FALSE,
             order |-> data.order, focus |-> "", disciplined |-> TRUE,
             stamp |-> [v_id \in VarIds |-> 0], clock |-> 0]

\* mutant: the focus event reaches no handler
onfocus_idle(variable_id) ==
  /\ last.clock < MaxFocus
  /\ UNCHANGED <<order, variables, steps>>
  /\ last' = [last EXCEPT !.op = "Reorder", !.variable_id = variable_id,
                          !.self = FALSE, !.order = order,
                          !.focus = variable_id,
                          !.stamp[variable_id] = last.clock + 1,
                          !.clock = last.clock + 1]

\* onfocus of the mantissa or exponent input of a variable: Reorder
onfocus(variable_id) ==
  /\ last.clock < MaxFocus
  /\ order' = MoveToLast(order, variable_id)
  /\ variables' = RefreshPrefix(variables, MoveToLast(order, variable_id))
  /\ steps' = steps
  /\ last' = [last EXCEPT !.op = "Reorder", !.variable_id = variable_id,
                          !.self = FALSE, !.order = order,
                          !.focus = variable_id,
                          !.stamp[variable_id] = last.clock + 1,
                          !.clock = last.clock + 1]

\* oninput of the mantissa or exponent input (Calculate, self = false) and
\* onchange of the mantissa input (Calculate, self = true)
oninput(variable_id, self, name, value) ==
  /\ steps < MaxSteps
  /\ variables' = CalculateVars(variables, order, variable_id, self,
                                name, Str(value))
  /\ Representable(variables')
  /\ order' = order
  /\ steps' = steps + 1
  /\ last' = [last EXCEPT !.op = "Calculate", !.variable_id = variable_id,
                          !.self = self, !.order = order,
                          !.disciplined = last.disciplined
                                            /\ last.focus = variable_id]

\* oninput of the unit dropdown: ChangeUnit; the dropdown binds no focus
\* handler
unit_oninput(variable_id, unit) ==
  /\ steps < MaxSteps
  /\ variables[variable_id].unit # ""
  /\ unit \in unitDropdown(variables[variable_id].unit).options
  /\ unit # variables[variable_id].unit
  /\ variables' = CalculateVars([variables EXCEPT ![variable_id] =
                                   SetUnit(variables[variable_id], unit)],
                                order, variable_id, TRUE, "", Str(unit))
  /\ Representable(variables')
  /\ order' = order
  /\ steps' = steps + 1
  /\ last' = [last EXCEPT !.op = "ChangeUnit", !.variable_id = variable_id,
                          !.self = TRUE, !.order = order]

FocusNext ==
  \/ \E variable_id \in VarIds : onfocus(variable_id)
  \/ \E variable_id \in VarIds, value \in FocusMantissaInputs :
       oninput(variable_id, FALSE, "mantissa", value)
  \/ \E variable_id \in VarIds, value \in FocusExponentInputs :
       oninput(variable_id, FALSE, "exponent", value)
  \/ \E variable_id \in VarIds, value \in FocusMantissaInputs :
       oninput(variable_id, TRUE, "mantissa", value)
  \/ \E variable_id \in VarIds, unit \in AllUnits :
       unit_oninput(variable_id, unit)

SpecFocus == FocusInit /\ [][FocusNext]_vars

(* --- vocabulary of the properties -------------------------------------- *)

\* the last call ran Calculate (directly, or at the end of ChangeUnit)
RanCalculate == last.op \in {"Calculate", "ChangeUnit"}

\* the variable keeps value, mantissa and exponent of the state before
\* the last call
Kept(v_id) ==
  /\ variables[v_id].value = last.variables[v_id].value
  /\ variables[v_id].mantissa = last.variables[v_id].mantissa
  /\ variables[v_id].exponent = last.variables[v_id].exponent

\* the guard of the last call, read off the snapshot it built
WalkRan ==
  \A v_id \in DOMAIN last.values : v_id = last.order[1] \/ last.values[v_id].k = "fin"

\* the variable at position i was recomputed by the walk of the last call
Walked(i) == ~(last.order[i] = last.variable_id /\ ~last.self)

\* the snapshot the formula at position i saw: the snapshot of the call
\* with the results of the recomputed positions before i
SeenAt(i) ==
  [v_id \in DOMAIN last.values |->
     IF \E j \in 1..(i - 1) : last.order[j] = v_id /\ Walked(j)
     THEN variables[v_id].value
     ELSE last.values[v_id]]

\* the variable at position i holds its formula on the snapshot it saw
Derived(i) ==
  variables[last.order[i]].value = formula(last.order[i], SeenAt(i))

(* --- C1 ------------------------------------------------------------------ *)

\* the call C1 is about: a commit on order[0] with every value finite
CommitFirst ==
  /\ last.op = "Calculate"
  /\ last.self
  /\ last.variable_id = last.order[1]
  /\ \A v_id \in VarIds : last.values[v_id].k = "fin"

\* C1 as stated: after a commit on the first variable A of the order
\* (Calculate with self = true, every value finite) A holds the committed
\* value and the later variables hold their formulas.
C1_Original ==
  CommitFirst =>
    /\ variables[last.order[1]].value = last.values[last.order[1]]
    /\ \A i \in 2..Len(last.order) : Derived(i)

\* C1 (amended): after a commit on the first variable A of the order, A is
\* re-derived by its formula from the values B and C had before the call,
\* which overwrites the committed value, and B and C hold their formulas
\* applied to that re-derived A and to the results before them in the order.
C1_CommitRederivesFirst ==
  CommitFirst => \A i \in 1..Len(last.order) : Derived(i)

\* a commit on order[0] whose committed value was overwritten
C1_Witness ==
  /\ CommitFirst
  /\ variables[last.order[1]].value # last.values[last.order[1]]
  /\ variables[last.order[2]].value.k = "fin"

(* --- C2 ------------------------------------------------------------------ *)

\* C2: whenever Calculate runs and, once the inputted variable's value is
\* recomputed, a variable other than order[0] holds a non-finite value, no
\* variable other than the inputted one changes value, mantissa or exponent.
C2_GuardAborts ==
  (RanCalculate /\ ~WalkRan) =>
    \A v_id \in VarIds \ {last.variable_id} : Kept(v_id)

\* a call stopped by a non-finite value of a variable that is neither
\* order[0] nor the inputted one, the inputted value being finite
C2_Witness ==
  /\ last.op = "Calculate"
  /\ last.values[last.variable_id].k = "fin"
  /\ \E v_id \in VarIds \ {last.variable_id, last.order[1]} :
       last.values[v_id].k # "fin"
  /\ variables[last.variable_id].value # last.variables[last.variable_id].value

(* --- C3 ------------------------------------------------------------------ *)

\* an input event (self = false) whose value is non-finite
NonFiniteInput ==
  /\ last.op = "Calculate"
  /\ ~last.self
  /\ last.values[last.variable_id].k # "fin"

\* the inputted field holds the raw input, the other field is untouched
RawKept ==
  /\ variables[last.variable_id][last.name] = Str(last.value)
  /\ \A name \in Fields \ {last.name} :
       variables[last.variable_id][name] = last.variables[last.variable_id][name]

\* C3 as stated: at every position of the order, including order[0], a
\* non-finite input leaves all other variables as they were and the
\* inputted field holds the raw input.
C3_Original ==
  NonFiniteInput =>
    /\ \A v_id \in VarIds \ {last.variable_id} : Kept(v_id)
    /\ RawKept

\* C3 (amended): at every position of the order other than order[0], a
\* non-finite input leaves all other variables as they were; at every
\* position, order[0] included, the inputted field holds the raw input.
C3_NonFiniteInputHalts ==
  NonFiniteInput =>
    /\ last.variable_id # last.order[1] =>
         \A v_id \in VarIds \ {last.variable_id} : Kept(v_id)
    /\ RawKept

\* a non-finite input on a variable that is not first, the others finite
C3_Witness ==
  /\ NonFiniteInput
  /\ last.variable_id # last.order[1]
  /\ \A v_id \in VarIds \ {last.variable_id} : variables[v_id].value.k = "fin"

(* --- C4 ------------------------------------------------------------------ *)

\* in the walk of the last call the formula at position k returned a
\* non-finite value
DomainErrorAt(k) ==
  /\ RanCalculate
  /\ WalkRan
  /\ Walked(k)
  /\ variables[last.order[k]].value.k # "fin"

\* C4 as stated: the variables after the position of a non-finite formula
\* result are not overwritten in that pass.
C4_Original ==
  \A k \in 1..Len(last.order) : \A j \in (k + 1)..Len(last.order) :
     (DomainErrorAt(k) /\ last.order[j] # last.variable_id) =>
        Kept(last.order[j])

\* C4 (amended): the walk does not stop at a non-finite formula result: each
\* recomputed variable after it is still overwritten with its formula on the
\* snapshot holding that result, with the scientific notation of the value
\* divided by unit_ratio (mantissa the non-finite value and exponent
\* undefined when it is not finite), and the call completes.
C4_DomainErrorPropagates ==
  \A k \in 1..Len(last.order) : \A j \in (k + 1)..Len(last.order) :
     (DomainErrorAt(k) /\ Walked(j)) =>
        /\ Derived(j)
        /\ variables[last.order[j]].mantissa =
             num_to_scientific(Div(variables[last.order[j]].value,
                                   variables[last.order[j]].unit_ratio)).mantissa
        /\ variables[last.order[j]].exponent =
             num_to_scientific(Div(variables[last.order[j]].value,
                                   variables[last.order[j]].unit_ratio)).exponent

\* a non-finite result at a position followed by a variable that was finite
\* before the call and is overwritten with a non-finite value
C4_Witness ==
  \E k \in 1..Len(last.order) : \E j \in (k + 1)..Len(last.order) :
     /\ DomainErrorAt(k)
     /\ Walked(j)
     /\ last.variables[last.order[j]].value.k = "fin"
     /\ variables[last.order[j]].value.k # "fin"
     /\ variables[last.order[j]].exponent = undefined

(* --- C5 ------------------------------------------------------------------ *)

\* the variable of the last call, now and before the call
Edited == variables[last.variable_id]
EditedBefore == last.variables[last.variable_id]

\* 1-based position of the variable of the last call in the order
EditedAt == indexOf(last.order, last.variable_id)

\* factorOf(new unit) / factorOf(default unit), from the registry
RatioOf(unit, default_unit) ==
  Div(units[kindOfUnit(unit)][unit], units[kindOfUnit(default_unit)][default_unit])

\* C5 as stated: after ChangeUnit, at every position of the order, mantissa
\* and exponent are those of before the call and unit_ratio is
\* factorOf(new unit) / factorOf(default unit).
C5_Original ==
  last.op = "ChangeUnit" =>
    /\ ToNumber(Edited.mantissa) = ToNumber(EditedBefore.mantissa)
    /\ ToNumber(Edited.exponent) = ToNumber(EditedBefore.exponent)
    /\ Edited.unit_ratio = RatioOf(last.value, Edited.default_unit)

\* C5 (amended): after ChangeUnit, unit_ratio is factorOf(new unit) /
\* factorOf(default unit) at every position.  When the guard stops the walk,
\* mantissa and exponent are those of before the call and value is
\* mantissa * 10^exponent * unit_ratio.  When the walk runs, the variable is
\* re-derived by its formula and mantissa and exponent are the scientific
\* notation of value / unit_ratio; for the variable at order[0] the formula
\* sees the other variables' values of before the call, so the displayed
\* number is converted to the new unit instead of being kept.
C5_UnitChange ==
  last.op = "ChangeUnit" =>
    /\ Edited.unit = last.value
    /\ Edited.default_unit = EditedBefore.default_unit
    /\ Edited.unit_ratio = RatioOf(last.value, Edited.default_unit)
    /\ ~WalkRan =>
         /\ Edited.mantissa = EditedBefore.mantissa
         /\ Edited.exponent = EditedBefore.exponent
         /\ Edited.value = Mul(Mul(Edited.mantissa, Pow10(Edited.exponent)),
                               Edited.unit_ratio)
    /\ WalkRan =>
         /\ Derived(EditedAt)
         /\ Edited.mantissa =
              num_to_scientific(Div(Edited.value, Edited.unit_ratio)).mantissa
         /\ Edited.exponent =
              num_to_scientific(Div(Edited.value, Edited.unit_ratio)).exponent

\* a change to another unit of the variable at order[0] that changed the
\* displayed exponent
C5_Witness ==
  /\ last.op = "ChangeUnit"
  /\ last.value # EditedBefore.unit
  /\ EditedAt = 1
  /\ WalkRan
  /\ Edited.value.k = "fin"
  /\ Edited.exponent # EditedBefore.exponent

(* --- C6 ------------------------------------------------------------------ *)

\* every value is finite and is its formula applied to the others
Consistent(vs) ==
  \A v_id \in VarIds :
     /\ vs[v_id].value.k = "fin"
     /\ vs[v_id].value = formula(v_id, Flatten(vs))

\* a change to another unit from a finite, consistent state
UnitChangeFromConsistent ==
  /\ last.op = "ChangeUnit"
  /\ last.value # EditedBefore.unit
  /\ Consistent(last.variables)

\* C6 as stated: at every position of the order, ChangeUnit to another unit
\* from a finite and consistent state leaves the stored value as it was.
C6_Original ==
  UnitChangeFromConsistent => Edited.value = EditedBefore.value

\* C6 (amended): ChangeUnit to another unit from a finite and consistent
\* state leaves the stored value as it was when the variable is at order[0];
\* at every position the value the walk starts from is the unchanged
\* mantissa * 10^exponent times the new unit_ratio, so at the other
\* positions the value is reinterpreted, not preserved.
C6_UnitChangeKeepsFirstValue ==
  UnitChangeFromConsistent =>
    /\ EditedAt = 1 => Edited.value = EditedBefore.value
    /\ last.values[last.variable_id] =
         Mul(Mul(EditedBefore.mantissa, Pow10(EditedBefore.exponent)),
             RatioOf(last.value, EditedBefore.default_unit))

\* a unit change of the variable at order[0] from a consistent state that
\* kept a non-zero value and changed the displayed number
C6_Witness ==
  /\ UnitChangeFromConsistent
  /\ EditedAt = 1
  /\ ~IsZero(Edited.value)
  /\ Edited.value = EditedBefore.value
  /\ Edited.exponent # EditedBefore.exponent

(* --- C7 ------------------------------------------------------------------ *)

\* the number the fields display, mantissa * 10^exponent
Displayed(v) == Mul(v.mantissa, Pow10(v.exponent))

\* the finite non-zero number y is x rounded at the 5th significant digit of
\* x: with |x| = (q + r/d) * 10^u, q of 5 digits and r < d, |y| is q * 10^u
\* and r/d <= 1/2, or |y| is (q + 1) * 10^u and r/d >= 1/2
RoundedAtPrecision(x, y) ==
  LET a  == Abs(x.n)
      e0 == Log10Floor(a, x.d)
      a1 == IF e0 < 0 THEN a * IntPow10(-e0) ELSE a
      d1 == IF e0 > 0 THEN x.d * IntPow10(e0) ELSE x.d
      dg == Digits(a1, d1, Precision)
      u  == x.e + e0 - (Precision - 1)
  IN  /\ (x.n < 0) = (y.n < 0)
      /\ y.d = 1
      /\ y.e >= u
      /\ y.e - u <= Precision
      /\ \/ Abs(y.n) * IntPow10(y.e - u) = dg.q /\ 2 * dg.r <= d1
         \/ Abs(y.n) * IntPow10(y.e - u) = dg.q + 1 /\ 2 * dg.r >= d1

\* value / unit_ratio is the displayed number, exactly or up to the rounding
\* at the 5th significant digit
WithinRounding(v) ==
  /\ isFinite(v.unit_ratio)
  /\ isFinite(Displayed(v))
  /\ \/ Div(v.value, v.unit_ratio) = Displayed(v)
     \/ /\ ~IsZero(v.value)
        /\ ~IsZero(Displayed(v))
        /\ RoundedAtPrecision(Div(v.value, v.unit_ratio), Displayed(v))

Without(seq, x) == SelectSeq(seq, LAMBDA y : y # x)

\* C8: Reorder(formula, v) leaves v at the last position of the order and
\* keeps the relative order of all other variables.
C8_ReorderMovesToLast ==
  [][\A v \in VarIds :
       Reorder(v) =>
         /\ order'[Len(order')] = v
         /\ Without(order', v) = Without(order, v)
         /\ Len(order') = Len(order)]_vars

\* the state a Reorder of the first variable of the catalog's order leaves
C8_Witness ==
  /\ last.op = "Reorder"
  /\ last.variable_id = data.order[1]
  /\ order = <<data.order[2], data.order[3], data.order[1]>>
  /\ steps = 0

(* --- C9 ------------------------------------------------------------------ *)

\* C9 as stated: after Reorder(formula, v), also when v was already last, the
\* variable that was last is at the second-to-last position.
C9_Original ==
  [][\A v \in VarIds :
       Reorder(v) => order'[Len(order') - 1] = order[Len(order)]]_vars

\* C9 (amended): after Reorder(formula, v) for a v that was not last, v is
\* last and the variable that was last is directly before it; for a v that
\* was already last the order is unchanged.
C9_PreviousLastBeforeLast ==
  [][\A v \in VarIds :
       Reorder(v) =>
         IF v # order[Len(order)]
         THEN /\ order'[Len(order')] = v
              /\ order'[Len(order') - 1] = order[Len(order)]
         ELSE order' = order]_vars

\* the state a Reorder of the middle variable of the catalog's order leaves
C9_Witness ==
  /\ last.op = "Reorder"
  /\ last.variable_id = data.order[2]
  /\ order = <<data.order[1], data.order[3], data.order[2]>>
  /\ steps = 0

(* --- C10 ----------------------------------------------------------------- *)

\* C10: in every reachable state the order is a permutation of the
\* formula's variable identifiers.
C10_OrderIsPermutation ==
  /\ Len(order) = Cardinality(VarIds)
  /\ {order[i] : i \in 1..Len(order)} = VarIds

\* a state after a unit change in which the order is not the catalog's
C10_Witness ==
  /\ last.op = "ChangeUnit"
  /\ steps = MaxSteps
  /\ order # data.order
  /\ order[1] # data.order[1]

(* --- C11 ----------------------------------------------------------------- *)

\* the marker the order assigns to a variable: start for order[0], end for
\* the last position, none elsewhere
MarkerOf(ord, v_id) ==
  IF v_id = ord[1] THEN "star"
  ELSE IF v_id = ord[Len(ord)] THEN "arrow"
  ELSE ""

\* C11: after preprocessing and after any sequence of operations, exactly
\* the variable at order[0] carries the start marker, exactly the variable at
\* the last position carries the end marker, every other variable carries none.
C11_PrefixTracksOrder ==
  \A v_id \in DOMAIN variables :
     variables[v_id].prefix = MarkerOf(order, v_id)

\* after a Reorder that changed the first position, followed by a call of
\* Calculate: the start marker has left the catalog's first variable
C11_Witness ==
  /\ RanCalculate
  /\ order[1] # data.order[1]
  /\ order[Len(order)] # data.order[Len(data.order)]
  /\ variables[order[1]].prefix = "star"
  /\ variables[data.order[1]].prefix # "star"

(* --- C12 ----------------------------------------------------------------- *)

\* the call of the scenario: a commit of m's mantissa while the order is
\* the catalog's [d, M, m]
CommitOfm ==
  /\ last.op = "Calculate"
  /\ last.self
  /\ last.variable_id = "m"
  /\ last.name = "mantissa"
  /\ last.order = distance_modulus.order

\* C12 as stated: with order [d, M, m], a commit of an edit of m's mantissa
\* leaves d and M at their value, mantissa and exponent of before the edit.
C12_Original == CommitOfm => (Kept("d") /\ Kept("M"))

\* C12 (amended): with order [d, M, m], a commit of an edit of m's mantissa
\* whose snapshot passes the guard re-derives d, M and m, in this order, each
\* by its formula on the running snapshot, with the scientific notation of
\* the result: the edit propagates to d.  Only when the guard stops the walk
\* are d and M left as they were.
C12_CommitOfLastPropagates ==
  CommitOfm =>
    IF WalkRan
    THEN \A i \in 1..Len(last.order) :
           /\ Derived(i)
           /\ variables[last.order[i]].mantissa =
                num_to_scientific(Div(variables[last.order[i]].value,
                                      variables[last.order[i]].unit_ratio)).mantissa
           /\ variables[last.order[i]].exponent =
                num_to_scientific(Div(variables[last.order[i]].value,
                                      variables[last.order[i]].unit_ratio)).exponent
    ELSE Kept("d") /\ Kept("M")

\* a commit of m's mantissa from the catalog's values that changed d
C12_Witness ==
  /\ CommitOfm
  /\ WalkRan
  /\ last.variables = [variable_id \in DMVarIds |->
                         preprocessIn(distance_modulus, variable_id)]
  /\ variables["d"].value.k = "fin"
  /\ variables["d"].value # last.variables["d"].value
  /\ variables["M"].value = last.variables["M"].value

(* --- C13 ----------------------------------------------------------------- *)

\* C13 as stated: every change event of the mantissa input and of the
\* exponent input invokes Calculate with self = true, and every input event
\* of either invokes Calculate with self = false: no such event ends without
\* a call, and the handlers bound to the two event types pass these values.
C13_Original ==
  /\ last.op = "none" => last.value \notin {"onchange", "oninput"}
  /\ \A name \in Fields :
       /\ "onchange" \in DOMAIN view[name] =>
            view[name]["onchange"] = [op |-> "Calculate", self |-> TRUE]
       /\ "oninput" \in DOMAIN view[name] =>
            view[name]["oninput"] = [op |-> "Calculate", self |-> FALSE]

(* --- C14 ----------------------------------------------------------------- *)

\* C14 as stated: for a unit absent from the registry, the dropdown is
\* populated with no options and factorOfUnit and kindOfUnit report the
\* failure without throwing, so that no operation ends in an error.
C14_Original ==
  /\ last.op # "TypeError"
  /\ \A v_id \in DOMAIN variables :
       (variables[v_id].unit # ""
          /\ kindOfUnit(variables[v_id].unit) = "undefined") =>
         /\ ~unitDropdown(variables[v_id].unit).threw
         /\ unitDropdown(variables[v_id].unit).options = {}
         /\ factorOfUnit(variables[v_id].unit) # TypeError

(* --- C15 ----------------------------------------------------------------- *)

\* the events of a user retyping one variable, on st = [variables, order]:
\* focus (Reorder), input of "3" into the mantissa, input of "1" into the
\* exponent
Retype(st, variable_id) ==
  LET ord1 == MoveToLast(st.order, variable_id)
      vs1  == RefreshPrefix(st.variables, ord1)
      vs2  == CalculateVars(vs1, ord1, variable_id, FALSE, "mantissa", Str("3"))
      vs3  == CalculateVars(vs2, ord1, variable_id, FALSE, "exponent", Str("1"))
  IN  [variables |-> vs3, order |-> ord1]

\* the user goes through the first i variables of the order ord0 and
\* retypes each one that holds a non-finite value when its turn comes
RECURSIVE RetypeAll(_, _, _)
RetypeAll(st, ord0, i) ==
  IF i = 0 THEN st
  ELSE LET before == RetypeAll(st, ord0, i - 1)
       IN  IF before.variables[ord0[i]].value.k = "fin" THEN before
           ELSE Retype(before, ord0[i])

AllFinite(vs) == \A v_id \in DOMAIN vs : vs[v_id].value.k = "fin"

\* the user goes through the variables twice, each time in the order the form
\* then has
Recover(st) ==
  LET once == RetypeAll(st, st.order, Len(st.order))
  IN  IF AllFinite(once.variables) THEN once
      ELSE RetypeAll(once, once.order, Len(once.order))

\* C15: from every reachable state in which some variable holds a non-finite
\* value there is a finite sequence of focus and input events after which
\* every variable holds a finite value: going through the variables in the
\* order of the form and retyping each one that holds a non-finite value,
\* at most twice over, is such a sequence.
C15_Recoverable ==
  ~AllFinite(variables) =>
    AllFinite(Recover([variables |-> variables, order |-> order]).variables)

\* a state with two non-finite variables, one of them displayed as NaN with
\* an undefined exponent, from which the retyping recovers
C15_Witness ==
  /\ \E v_id \in DOMAIN variables :
       /\ v_id # order[1]
       /\ variables[v_id].value.k = "nan"
       /\ variables[v_id].exponent = undefined
  /\ variables[order[1]].value.k = "inf"
  /\ AllFinite(Recover([variables |-> variables, order |-> order]).variables)

(* --- C16 ----------------------------------------------------------------- *)

\* m is finite with 1 <= |m| < 10 and at most 5 significant digits
FiveDigitMantissa(m) ==
  /\ m.k = "fin"
  /\ m.d = 1
  /\ m.e >= 1 - Precision
  /\ m.e <= 0
  /\ Abs(m.n) * IntPow10(m.e + Precision - 1) >= IntPow10(Precision - 1)
  /\ Abs(m.n) * IntPow10(m.e + Precision - 1) < IntPow10(Precision)

\* e is a finite integer
IntegerExponent(e) == e.k = "fin" /\ e.d = 1 /\ e.e >= 0

\* r is the scientific notation of the finite x
ScientificOf(x, r) ==
  IF IsZero(x)
  THEN r.mantissa = Int2Num(0) /\ r.exponent = Int2Num(0)
  ELSE /\ IntegerExponent(r.exponent)
       /\ FiveDigitMantissa(r.mantissa)
       /\ \/ Displayed(r) = x
          \/ RoundedAtPrecision(x, Displayed(r))

\* C16 as stated: for every finite x # 0 num_to_scientific returns an
\* integer exponent and a mantissa with 1 <= |mantissa| < 10 of at most 5
\* significant digits whose product mantissa * 10^exponent is x rounded to 5
\* significant digits, and (0, 0) for x = 0.
C16_Original ==
  last.op = "num_to_scientific" => ScientificOf(last.x, last.result)

\* the same for the arguments whose rounding stays below the largest double
C16_BelowOverflow ==
  (last.op = "num_to_scientific" /\ last.result.mantissa.k = "fin") =>
     ScientificOf(last.x, last.result)

(* --- C17 ----------------------------------------------------------------- *)

\* C17: in a Calculate call with self = false the walk does not recompute
\* the edited variable: after the call its edited field holds the raw input,
\* its other field is unchanged and its value is mantissa * 10^exponent *
\* unit_ratio of those fields, whatever the other variables hold.
C17_SelfSkip ==
  (last.op = "Calculate" /\ ~last.self) =>
    /\ RawKept
    /\ Edited.unit_ratio = EditedBefore.unit_ratio
    /\ Edited.value = Mul(Mul(Edited.mantissa, Pow10(Edited.exponent)),
                          Edited.unit_ratio)

\* an input event whose walk ran and changed another variable
C17_Witness ==
  /\ last.op = "Calculate"
  /\ ~last.self
  /\ WalkRan
  /\ Edited.value.k = "fin"
  /\ Edited.value # EditedBefore.value
  /\ \E v_id \in DOMAIN variables \ {last.variable_id} :
       variables[v_id].value # last.variables[v_id].value

(* --- C18 ----------------------------------------------------------------- *)

\* C18: in a Calculate call that passes the guard every non-skipped variable
\* holds its formula evaluated on the snapshot made of the results of this
\* pass for the positions before it and of the pre-walk values (the edited
\* variable's fresh value included) for all others, and the skipped variable
\* holds its pre-walk value: one pass in order sequence, no position revisited.
C18_SinglePassFold ==
  (RanCalculate /\ WalkRan) =>
    \A i \in 1..Len(last.order) :
       IF Walked(i) THEN Derived(i)
       ELSE variables[last.order[i]].value = last.values[last.order[i]]

\* a pass in which a formula at a later position saw a result of this pass
\* that differs from the pre-walk value
C18_Witness ==
  /\ RanCalculate
  /\ WalkRan
  /\ \E j \in 1..Len(last.order) : \E k \in (j + 1)..Len(last.order) :
       /\ Walked(j)
       /\ Walked(k)
       /\ variables[last.order[j]].value.k = "fin"
       /\ variables[last.order[j]].value # last.values[last.order[j]]
       /\ variables[last.order[k]].value.k = "fin"

(* --- C19 ----------------------------------------------------------------- *)

\* C19: in every reachable state every variable whose unit is a registered
\* unit has unit_ratio = factorOf(unit) / factorOf(default_unit), and its
\* default_unit is the unit the catalog declares.
C19_UnitRatio ==
  \A v_id \in DOMAIN variables :
     variables[v_id].unit \in AllUnits =>
       /\ variables[v_id].default_unit = data.variables[v_id].unit
       /\ variables[v_id].unit_ratio =
            RatioOf(variables[v_id].unit, variables[v_id].default_unit)

\* after a call of Calculate, a variable shown in a unit that is not its
\* default, with a ratio other than 1
C19_Witness ==
  /\ last.op = "Calculate"
  /\ \E v_id \in DOMAIN variables :
       /\ variables[v_id].unit \in AllUnits
       /\ variables[v_id].unit # variables[v_id].default_unit
       /\ variables[v_id].unit_ratio # Int2Num(1)

(* --- C20 ----------------------------------------------------------------- *)

\* C20: a Reorder call changes only the order and the prefix markers: every
\* variable keeps value, mantissa, exponent, unit, default_unit and
\* unit_ratio.
C20_ReorderComputesNothing ==
  [][\A v \in VarIds :
       Reorder(v) =>
         /\ DOMAIN variables' = DOMAIN variables
         /\ \A v_id \in DOMAIN variables :
              [variables'[v_id] EXCEPT !.prefix = variables[v_id].prefix]
                = variables[v_id]]_vars

\* the state a Reorder leaves when a variable is shown in a unit other than
\* its default and a variable holds a raw input
C20_Witness ==
  /\ last.op = "Reorder"
  /\ order # data.order
  /\ \E v_id \in DOMAIN variables :
       variables[v_id].unit_ratio # Int2Num(1)
  /\ \E v_id \in DOMAIN variables : variables[v_id].mantissa.k = "str"

(* --- C21 ----------------------------------------------------------------- *)

\* the prefix markers of the variables vs, by variable
Prefixes(vs) == [v_id \in DOMAIN vs |-> vs[v_id].prefix]

\* C21: every Calculate call (self true or false, guard passing or aborting)
\* and every ChangeUnit call leaves the order and all prefix markers as they
\* were.
C21_OnlyReorderMovesOrder ==
  [][last'.op \in {"Calculate", "ChangeUnit"} =>
       /\ order' = order
       /\ Prefixes(variables') = Prefixes(variables)]_vars

\* after a Reorder has changed the order, a Calculate call with self = true
\* whose walk has run has left the order as it found it
C21_Witness ==
  /\ last.op = "Calculate"
  /\ last.self
  /\ WalkRan
  /\ variables # last.variables
  /\ order = last.order
  /\ order # data.order
  /\ Prefixes(variables) = Prefixes(last.variables)

(* --- C22 ----------------------------------------------------------------- *)

\* C22: as long as every input and change event went to a field of the
\* variable that received the most recent focus event, the variable a
\* Calculate call is made for by an input field is at the last position of
\* the order when the call runs; in a form of two or more variables it is
\* not order[0], the variable the finiteness guard exempts.
C22_FocusedEditIsLast ==
  (last.op = "Calculate" /\ last.disciplined) =>
    /\ last.variable_id = last.order[Len(last.order)]
    /\ Len(last.order) >= 2 => last.variable_id # last.order[1]

\* a Calculate call for the variable that was first in the catalog's order,
\* made after the focus on its field, with a unit change of another
\* variable between the focus and the input
C22_Witness ==
  /\ last.op = "Calculate"
  /\ last.disciplined
  /\ last.variable_id = data.order[1]
  /\ last.focus = data.order[1]
  /\ last.order[Len(last.order)] = data.order[1]
  /\ \E v_id \in DOMAIN variables :
       /\ v_id # data.order[1]
       /\ variables[v_id].unit # variables[v_id].default_unit

\* a ChangeUnit call, in a disciplined sequence, for a variable that is not
\* last in the order: the Calculate it ends with runs for that variable
C22_UnitChangeNotLast ==
  /\ last.op = "ChangeUnit"
  /\ last.disciplined
  /\ last.focus # ""
  /\ last.variable_id # last.order[Len(last.order)]

(* --- C23 ----------------------------------------------------------------- *)

\* the variables that received a focus event
Focused(stamp) == {v_id \in DOMAIN stamp : stamp[v_id] > 0}

\* the never-focused variables in the relative order of ord0, followed by
\* the focused ones from the least to the most recently focused
LeastRecentlyFocused(ord0, stamp) ==
  SelectSeq(ord0, LAMBDA v_id : stamp[v_id] = 0)
    \o [i \in 1..Cardinality(Focused(stamp)) |->
          CHOOSE v_id \in Focused(stamp) :
            Cardinality({w \in Focused(stamp) : stamp[w] <= stamp[v_id]}) = i]

\* C23: the order consists of the never-focused variables in their initial
\* relative order, followed by the focused variables from the least to the
\* most recently focused; moving a variable to the end twice in a row
\* gives the same order as moving it once.
C23_LeastRecentlyFocusedOrder ==
  /\ order = LeastRecentlyFocused(data.order, last.stamp)
  /\ \A v_id \in VarIds :
       MoveToLast(MoveToLast(order, v_id), v_id) = MoveToLast(order, v_id)

\* after three focus events, the first and the third on the same variable,
\* with a call of Calculate between them: one variable was never focused
\* and stays first, the variable focused twice is last
C23_Witness ==
  /\ last.clock = 3
  /\ steps > 0
  /\ \E v_id \in VarIds : last.stamp[v_id] = 0 /\ order[1] = v_id
  /\ \E v_id \in VarIds : last.stamp[v_id] = 2 /\ order[2] = v_id
  /\ last.stamp[data.order[1]] = 3
  /\ order[3] = data.order[1]
  /\ order = LeastRecentlyFocused(data.order, last.stamp)

(* --- C24 ----------------------------------------------------------------- *)

\* C24: in every state reached through the unit dropdown, the unit of each
\* variable that has one is a registered unit of the kind of its
\* default_unit, so that factorOfUnit does not throw for it, and the
\* unit_ratio of every variable is a positive finite number.
C24_UnitKindPreserved ==
  \A v_id \in DOMAIN variables :
    /\ variables[v_id].default_unit # "" =>
         /\ kindOfUnit(variables[v_id].unit) # "undefined"
         /\ kindOfUnit(variables[v_id].unit)
              = kindOfUnit(variables[v_id].default_unit)
         /\ factorOfUnit(variables[v_id].unit) # TypeError
    /\ variables[v_id].unit_ratio.k = "fin"
    /\ variables[v_id].unit_ratio.n > 0

\* after two unit changes, two variables are shown in a unit other than
\* their default
C24_Witness ==
  /\ last.op = "ChangeUnit"
  /\ steps = 2
  /\ \E v_id, w_id \in DOMAIN variables :
       /\ v_id # w_id
       /\ variables[v_id].unit # variables[v_id].default_unit
       /\ variables[w_id].unit # variables[w_id].default_unit
       /\ variables[v_id].unit_ratio # Int2Num(1)
====
